---------------------------- MODULE Spec2Model ----------------------------
(*
  be-analytics: the driving-distance resource of the analytics backend.

  The module models
    - the shared-secret guard of the router        (backend/auth.py),
    - the session dependency of every route        (backend/database.py),
    - chunked bulk ingestion                       (routers/drivingdistance_routes.py, POST /bulk),
    - the read side: list, aggregate, distinct     (same file, POST /filter, GET /,
                                                    POST /sumdistance, GET /platenumber),
    - the created_at conversion of the response    (schemas/drivingdistance.py).

  Two specifications share the request front end (Receive, Auth, Depends):
    SpecBulk   concurrent bulk-ingestion requests against the store;
    SpecQuery  the read-side operations over every small table.

  Interpreter semantics assumed: CPython reference counting (the generator made
  by get_db(...) inside `lambda: next(get_db("DB_MAIN"))` is unreferenced when
  next() returns, so its `finally` runs before the lambda returns).
  Store semantics assumed: PostgreSQL, READ COMMITTED; ids come from a sequence
  at INSERT time and are not given back on rollback.
*)
EXTENDS Integers, Sequences, FiniteSets, TLC

VARIABLES
  API_TOKEN,          \* auth.py:8       the configured secret, read once at start-up
  pc,                 \* per request: position in the request's processing
  route,              \* per request: which route it addresses
  x_token,            \* per request: the x-token header it carries
  status,             \* per request: HTTP status of the response (0: none yet)
  detail,             \* per request: the cause carried by an error response
  response,           \* per request: the body of a successful response
  sessionClosed,      \* per request: db.close() has run on the request's session
  conn,               \* per request: the session holds a pooled connection
  touched,            \* per request: the request has issued a statement to the store
  \* ---- bulk ingestion
  total,              \* len(payload); -1 until the handler is entered
  start,              \* loop variable of the chunk loop
  inserted_records,   \* accumulator of the chunk loop
  pending,            \* rows written in the request's open transaction
  store,              \* committed rows of table drivingdistance
  nextId,             \* next value of the id sequence
  \* ---- read side
  table,              \* committed rows, one record per row
  dbTimeZone,         \* the zone in which the driver hands out timestamps
  criteria            \* per request: the filter criteria it carries

bulkVars  == <<total, start, inserted_records, pending, store, nextId>>
queryVars == <<table, dbTimeZone, criteria>>
reqVars   == <<pc, route, x_token, status, detail, response, sessionClosed, conn, touched>>
vars      == <<API_TOKEN, reqVars, bulkVars, queryVars>>

-----------------------------------------------------------------------------
(* Bounds of the model *)

MaxChunks == 3       \* the longest payload of a bulk request, in chunks

MaxRows == 2         \* the most rows of the table on the read side

(* Program constants *)

batch_size == 2000   \* drivingdistance_routes.py:43
DefaultLimit == 500  \* drivingdistance_routes.py:81
BangkokOffset == 7   \* drivingdistance_routes.py:26, schemas/drivingdistance.py:21

\* two requests in flight: the least number that shows writers interfering
Reqs   == {1, 2}
None   == "None"
Missing == "Missing"

\* values of os.getenv("API_TOKEN"): unset, empty, set
Secrets == {None, "", "s3cret"}
\* values of the x-token header of a request
Tokens  == {Missing, "", "s3cret", "wrong"}
\* payload lengths of a bulk request
Totals  == {0} \cup {k * batch_size : k \in 1..(MaxChunks - 1)}
               \cup {(MaxChunks - 1) * batch_size + 500}
\* sizes of the table before the requests
PreSizes == {0, batch_size + 500}

\* Optional[T]: None is <<>>, a value v is <<v>>
Absent == <<>>
Some(v) == <<v>>

\* DrivingDistanceFilter() with every field at its default (lines 77-81)
NoCriteria ==
  [plate_number |-> Absent, start_at |-> Absent, end_at |-> Absent,
   limit |-> DefaultLimit]

NoBlock == [owner |-> 0, lo |-> 0, hi |-> 0, id |-> 0]

Min(a, b) == IF a < b THEN a ELSE b

-----------------------------------------------------------------------------
(* Rows.  A block [owner, lo, hi, id] stands for the rows made from
   payload[lo..hi] (1-based) of request `owner`, with consecutive ids
   id, id+1, ...: one executemany INSERT of a chunk.  owner 0: rows that
   existed before.  A run [owner, first, last, id, step] stands for the list
   of rows of `owner` with payload positions first, first+step, ..., last and
   ids id, id+step, ...; a list of rows is a sequence of runs. *)

BlockLen(b) == b.hi - b.lo + 1

RunLen(u) == (u.last - u.first) * u.step + 1

\* reversed(list) on a run
ReverseRun(u) ==
  [owner |-> u.owner, first |-> u.last, last |-> u.first,
   id |-> u.id + (u.last - u.first), step |-> 0 - u.step]

\* list(reversed(xs)) on a list of runs
Reversed(xs) ==
  [i \in 1..Len(xs) |-> ReverseRun(xs[Len(xs) + 1 - i])]

RECURSIVE ListLen(_)
ListLen(xs) == IF xs = <<>> THEN 0 ELSE RunLen(Head(xs)) + ListLen(Tail(xs))

\* db.query(DrivingDistance).order_by(DrivingDistance.id.desc()).limit(n).all()
\* over the committed rows S
RECURSIVE QueryLastById(_, _)
QueryLastById(S, n) ==
  IF n <= 0 \/ S = {} THEN <<>>
  ELSE LET b == CHOOSE x \in S : \A y \in S : y.id <= x.id
           k == Min(n, BlockLen(b))
       IN <<[owner |-> b.owner, first |-> b.hi, last |-> b.hi - k + 1,
             id |-> b.id + BlockLen(b) - 1, step |-> 0 - 1]>>
          \o QueryLastById(S \ {b}, n - k)

-----------------------------------------------------------------------------
(* auth.py: the guard of every route of the router *)

\* verify_token, with its parameter x_token: str = Header(...): a required
\* header; FastAPI answers 422 when it is absent and does not call the function
verify_token(tok) ==
  IF tok = Missing THEN 422
  ELSE IF API_TOKEN \in {None, ""} THEN 500
  ELSE IF tok # API_TOKEN THEN 401
  ELSE 200

-----------------------------------------------------------------------------
(* The request front end *)

InitRequests ==
  /\ API_TOKEN \in Secrets
  /\ pc = [r \in Reqs |-> "idle"]
  /\ route = [r \in Reqs |-> None]
  /\ x_token = [r \in Reqs |-> None]
  /\ status = [r \in Reqs |-> 0]
  /\ detail = [r \in Reqs |-> None]
  /\ response = [r \in Reqs |-> <<>>]
  /\ sessionClosed = [r \in Reqs |-> FALSE]
  /\ conn = [r \in Reqs |-> FALSE]
  /\ touched = [r \in Reqs |-> FALSE]
  /\ criteria = [r \in Reqs |-> NoCriteria]
  /\ total = [r \in Reqs |-> 0 - 1]
  /\ start = [r \in Reqs |-> 0]
  /\ inserted_records = [r \in Reqs |-> <<>>]
  /\ pending = [r \in Reqs |-> NoBlock]

InitBulk ==
  /\ InitRequests
  /\ \E n \in PreSizes :
       /\ store = IF n = 0 THEN {} ELSE {[owner |-> 0, lo |-> 1, hi |-> n, id |-> 1]}
       /\ nextId = n + 1
  /\ table = <<>>
  /\ dbTimeZone = <<>>

\* POST /bulk arrives with its token header (the body is validated into
\* `payload` after the dependencies are solved, see BulkStart)
ReceiveBulk(r) ==
  /\ pc[r] = "idle"
  /\ \E tok \in Tokens : x_token' = [x_token EXCEPT ![r] = tok]
  /\ route' = [route EXCEPT ![r] = "bulk"]
  /\ pc' = [pc EXCEPT ![r] = "auth"]
  /\ UNCHANGED <<API_TOKEN, status, detail, response, sessionClosed, conn, touched,
                 bulkVars, queryVars>>

\* the router's dependency, solved first: dependencies=[Depends(verify_token)].
\* An HTTPException raised by verify_token ends the request; a missing header is
\* a validation error, collected while the remaining dependencies are solved.
Auth(r) ==
  /\ pc[r] = "auth"
  /\ LET code == verify_token(x_token[r])
     IN /\ status' = [status EXCEPT ![r] = IF code = 200 THEN 0 ELSE code]
        /\ detail' = [detail EXCEPT ![r] =
                        CASE code = 500 -> "Server misconfigured: API_TOKEN not set in .env"
                          [] code = 401 -> "Invalid or missing API token"
                          [] code = 422 -> "Field required"
                          [] OTHER -> None]
        /\ pc' = [pc EXCEPT ![r] = IF code \in {200, 422} THEN "depends" ELSE "done"]
  /\ UNCHANGED <<API_TOKEN, route, x_token, response, sessionClosed, conn, touched,
                 bulkVars, queryVars>>

\* db: Session = Depends(lambda: next(get_db("DB_MAIN"))).  get_db makes the
\* session and yields it; the generator is dropped when next() returns, so
\* `finally: db.close()` has run when the handler gets the session.  A closed
\* Session begins a new transaction on its next statement.
get_db(r) ==
  /\ sessionClosed' = [sessionClosed EXCEPT ![r] = TRUE]
  /\ conn' = [conn EXCEPT ![r] = FALSE]

Depends(r) ==
  /\ pc[r] = "depends"
  /\ get_db(r)
  /\ pc' = [pc EXCEPT ![r] = IF status[r] = 422 THEN "done" ELSE "handler"]
  /\ UNCHANGED <<API_TOKEN, route, x_token, status, detail, response, touched,
                 bulkVars, queryVars>>

-----------------------------------------------------------------------------
(* POST /bulk: create_large_bulk_records *)

\* a test that lets the empty payload through
EmptyPayloadNever(n) == n < 0

\* line 38: if total == 0
EmptyPayload(n) == n = 0

\* lines 33-44: the handler is entered with a payload of n records;
\* the empty payload is refused before the try block
BulkStart(r) ==
  /\ pc[r] = "handler" /\ route[r] = "bulk"
  /\ \E n \in Totals :
       /\ total' = [total EXCEPT ![r] = n]
       /\ IF EmptyPayload(n)
            THEN /\ status' = [status EXCEPT ![r] = 400]
                 /\ detail' = [detail EXCEPT ![r] = "No records provided."]
                 /\ pc' = [pc EXCEPT ![r] = "done"]
            ELSE /\ pc' = [pc EXCEPT ![r] = "write"]
                 /\ UNCHANGED <<status, detail>>
  /\ start' = [start EXCEPT ![r] = 0]
  /\ inserted_records' = [inserted_records EXCEPT ![r] = <<>>]
  /\ UNCHANGED <<API_TOKEN, route, x_token, response, sessionClosed, conn, touched,
                 pending, store, nextId, queryVars>>

\* the end of the chunk without the min: a last chunk that runs past the payload
BatchEndNoMin(r) == start[r] + batch_size

\* lines 48-49: end = min(start + batch_size, total); batch = payload[start:end]
BatchEnd(r) == Min(start[r] + batch_size, total[r])

\* lines 52-53: db.bulk_save_objects(records): the INSERT of the chunk runs in
\* the session's transaction and draws the ids from the sequence
BulkWrite(r) ==
  /\ pc[r] = "write"
  /\ pending' = [pending EXCEPT ![r] =
        [owner |-> r, lo |-> start[r] + 1, hi |-> BatchEnd(r), id |-> nextId]]
  /\ nextId' = nextId + (BatchEnd(r) - start[r])
  /\ conn' = [conn EXCEPT ![r] = TRUE]
  /\ touched' = [touched EXCEPT ![r] = TRUE]
  /\ pc' = [pc EXCEPT ![r] = "commit"]
  /\ UNCHANGED <<API_TOKEN, route, x_token, status, detail, response, sessionClosed,
                 total, start, inserted_records, store, queryVars>>

\* the INSERT raises (connectivity, constraint): control goes to the except block
BulkWriteFails(r) ==
  /\ pc[r] = "write"
  /\ detail' = [detail EXCEPT ![r] = "write"]
  /\ conn' = [conn EXCEPT ![r] = TRUE]
  /\ touched' = [touched EXCEPT ![r] = TRUE]
  /\ pc' = [pc EXCEPT ![r] = "except"]
  /\ UNCHANGED <<API_TOKEN, route, x_token, status, response, sessionClosed,
                 bulkVars, queryVars>>

\* line 54: db.commit(): the chunk becomes visible to every session
BulkCommit(r) ==
  /\ pc[r] = "commit"
  /\ store' = store \cup {pending[r]}
  /\ pending' = [pending EXCEPT ![r] = NoBlock]
  /\ conn' = [conn EXCEPT ![r] = FALSE]
  /\ pc' = [pc EXCEPT ![r] = "reread"]
  /\ UNCHANGED <<API_TOKEN, route, x_token, status, detail, response, sessionClosed,
                 touched, total, start, inserted_records, nextId, queryVars>>

\* db.commit() raises: nothing of the chunk is committed
BulkCommitFails(r) ==
  /\ pc[r] = "commit"
  /\ detail' = [detail EXCEPT ![r] = "commit"]
  /\ pc' = [pc EXCEPT ![r] = "except"]
  /\ UNCHANGED <<API_TOKEN, route, x_token, status, response, sessionClosed, conn,
                 touched, bulkVars, queryVars>>

\* lines 57-63 and the loop header: the re-read of the len(batch) rows with
\* the greatest ids, prepended to inserted_records; then the next chunk
BulkReread(r) ==
  /\ pc[r] = "reread"
  /\ LET last_batch == QueryLastById(store, BatchEnd(r) - start[r])
     IN inserted_records' = [inserted_records EXCEPT ![r] = last_batch \o @]
  /\ start' = [start EXCEPT ![r] = @ + batch_size]
  /\ conn' = [conn EXCEPT ![r] = TRUE]
  /\ pc' = [pc EXCEPT ![r] = IF start[r] + batch_size < total[r] THEN "write" ELSE "return"]
  /\ UNCHANGED <<API_TOKEN, route, x_token, status, detail, response, sessionClosed,
                 touched, total, pending, store, nextId, queryVars>>

\* the re-read raises, after the chunk was committed
BulkRereadFails(r) ==
  /\ pc[r] = "reread"
  /\ detail' = [detail EXCEPT ![r] = "reread"]
  /\ conn' = [conn EXCEPT ![r] = TRUE]
  /\ pc' = [pc EXCEPT ![r] = "except"]
  /\ UNCHANGED <<API_TOKEN, route, x_token, status, response, sessionClosed,
                 touched, bulkVars, queryVars>>

\* lines 65-66: return list(reversed(inserted_records))
BulkReturn(r) ==
  /\ pc[r] = "return"
  /\ response' = [response EXCEPT ![r] = Reversed(inserted_records[r])]
  /\ status' = [status EXCEPT ![r] = 200]
  /\ pc' = [pc EXCEPT ![r] = "done"]
  /\ UNCHANGED <<API_TOKEN, route, x_token, detail, sessionClosed, conn, touched,
                 bulkVars, queryVars>>

\* an except block that leaves the transaction as it is
RollbackSkipped(r) == UNCHANGED <<pending, conn>>

\* line 69: db.rollback() discards the rows of the open transaction
Rollback(r) ==
  /\ pending' = [pending EXCEPT ![r] = NoBlock]
  /\ conn' = [conn EXCEPT ![r] = FALSE]

\* lines 68-71: db.rollback(), then HTTPException(500, "Database insert failed: {e}")
BulkExcept(r) ==
  /\ pc[r] = "except"
  /\ Rollback(r)
  /\ status' = [status EXCEPT ![r] = 500]
  /\ pc' = [pc EXCEPT ![r] = "done"]
  /\ UNCHANGED <<API_TOKEN, route, x_token, detail, response, sessionClosed, touched,
                 total, start, inserted_records, store, nextId, queryVars>>

NextBulk ==
  \E r \in Reqs :
    \/ ReceiveBulk(r)
    \/ Auth(r)
    \/ Depends(r)
    \/ BulkStart(r)
    \/ BulkWrite(r)
    \/ BulkWriteFails(r)
    \/ BulkCommit(r)
    \/ BulkCommitFails(r)
    \/ BulkReread(r)
    \/ BulkRereadFails(r)
    \/ BulkReturn(r)
    \/ BulkExcept(r)

-----------------------------------------------------------------------------
(* Properties of bulk ingestion *)

HandlerPcs == {"handler", "write", "commit", "reread", "return", "except"}

OwnBlocks(r) == {b \in store : b.owner = r}

\* the number of chunks of a payload of n records
NumChunks(n) == (n + batch_size - 1) \div batch_size

\* the k-th chunk of a payload of n records, as payload positions
ChunkLo(k) == (k - 1) * batch_size + 1
ChunkHi(k, n) == Min(k * batch_size, n)

\* the committed rows of r are exactly the chunks 1..m of its payload
PersistedChunks(r, m) ==
  /\ Cardinality(OwnBlocks(r)) = m
  /\ \A k \in 1..m :
       \E b \in OwnBlocks(r) : b.lo = ChunkLo(k) /\ b.hi = ChunkHi(k, total[r])

\* the id the store gave to the row made from payload[i] of r
RowId(r, i) ==
  LET b == CHOOSE x \in OwnBlocks(r) : x.lo <= i /\ i <= x.hi
  IN b.id + (i - b.lo)

\* xs lists the rows made from payload[from..n] of r, in payload order
RECURSIVE ListsOwn(_, _, _, _)
ListsOwn(xs, r, from, n) ==
  IF xs = <<>> THEN from = n + 1
  ELSE LET u == Head(xs)
       IN /\ u.owner = r /\ u.step = 1 /\ u.first = from /\ u.last >= u.first
          /\ u.last <= n
          /\ u.id = RowId(r, u.first)
          /\ ListsOwn(Tail(xs), r, u.last + 1, n)

\* no other request has rows in flight, and none committed rows after r's first
Quiet(r) ==
  /\ \A q \in Reqs \ {r} : pending[q] = NoBlock
  /\ \A b \in store : \A c \in OwnBlocks(r) : b.owner # r => b.id < c.id

BulkSucceeded(r) == route[r] = "bulk" /\ pc[r] = "done" /\ status[r] = 200

\* the rows that existed before the requests are still there
PreExistingKept ==
  \A b \in store : b.owner = 0 => b.lo = 1 /\ b.id = 1 /\ b.hi = batch_size + 500

\* C1: a bulk request of N >= 1 records that ran with no other writer and no
\* store failure has added exactly N rows, as ceil(N/2000) chunks of 2000
\* rows except a possibly shorter last one, each chunk committed before the
\* next was written, and its response lists those N rows in payload order.
C1_ChunkedInsert ==
  \A r \in Reqs :
    /\ (pending[r] # NoBlock =>
          /\ pending[r].lo = start[r] + 1
          /\ PersistedChunks(r, start[r] \div batch_size))
    /\ (BulkSucceeded(r) /\ Quiet(r) =>
          /\ total[r] >= 1
          /\ PersistedChunks(r, NumChunks(total[r]))
          /\ ListLen(response[r]) = total[r]
          /\ ListsOwn(response[r], r, 1, total[r])
          /\ PreExistingKept)

\* a request of 4500 records succeeded alone: chunks 2000/2000/500
C1_Witness ==
  \E r \in Reqs :
    /\ BulkSucceeded(r) /\ Quiet(r) /\ total[r] = 2 * batch_size + 500
    /\ Cardinality(OwnBlocks(r)) = 3
    /\ \E b \in OwnBlocks(r) : BlockLen(b) = 500

\* the chunk in which the request failed (1-based)
FailedChunk(r) == start[r] \div batch_size + 1

WriteOrCommitFailed(r) ==
  route[r] = "bulk" /\ pc[r] = "done" /\ detail[r] \in {"write", "commit"}

\* C2: after a failure of the write or the commit of chunk k the chunk's
\* transaction is rolled back, the request ends with 500 and the cause, and
\* the rows it has persisted are exactly chunks 1..k-1 of its payload.
C2_PartialFailure ==
  \A r \in Reqs :
    WriteOrCommitFailed(r) =>
      /\ status[r] = 500
      /\ pending[r] = NoBlock /\ ~conn[r]
      /\ PersistedChunks(r, FailedChunk(r) - 1)
      /\ response[r] = <<>>

\* the commit of the third chunk of a request failed; two chunks stay
C2_Witness ==
  \E r \in Reqs :
    /\ WriteOrCommitFailed(r) /\ detail[r] = "commit"
    /\ FailedChunk(r) = 3 /\ Cardinality(OwnBlocks(r)) = 2

\* C3: an empty payload is answered 400 and nothing is persisted: no chunk
\* is written, no commit is issued, the store is as it was.
C3_EmptyPayload ==
  \A r \in Reqs :
    (route[r] = "bulk" /\ total[r] = 0) =>
      /\ pc[r] = "done" /\ status[r] = 400
      /\ ~touched[r] /\ pending[r] = NoBlock /\ OwnBlocks(r) = {}
      /\ response[r] = <<>>

\* an authorized request with an empty payload has been answered
C3_Witness ==
  \E r \in Reqs :
    route[r] = "bulk" /\ total[r] = 0 /\ pc[r] = "done" /\ x_token[r] = API_TOKEN

\* C4: on full success the response lists all the records the request
\* inserted, in payload order, whatever other requests commit meanwhile.
C4_ResponseIsOwnRows ==
  \A r \in Reqs :
    BulkSucceeded(r) =>
      /\ ListLen(response[r]) = total[r]
      /\ ListsOwn(response[r], r, 1, total[r])

SpecBulk == InitBulk /\ [][NextBulk]_vars

-----------------------------------------------------------------------------
(* The read side: inputs *)

\* one request at a time: the read operations do not change the store
QReqs == {1}

Plates    == {"", "A1", "B2"}
Dates     == {1, 2}
Distances == {5, 10}
\* the stored created_at of a row: NULL, or an instant (hours, UTC)
Instants  == {Absent, Some(10)}
\* the session's zone: none (naive values), UTC, or UTC+7
TimeZones == {Absent, Some(0), Some(BangkokOffset)}

\* lexicographic order of the plate numbers
PlateRank(p) == CASE p = "" -> 0 [] p = "A1" -> 1 [] p = "B2" -> 2

RowValues ==
  [plate_number : Plates, date : Dates, distance : Distances, created_at : Instants]

RowCode(v) ==
  PlateRank(v.plate_number) * 1000 + v.date * 100 + v.distance * 2
    + (IF v.created_at = Absent THEN 0 ELSE 1)

\* the tables of at most MaxRows rows; ids in insertion order.  No query reads
\* the id, so of the tables that differ only in the order of their rows one
\* is kept.
Tables ==
  UNION {{[i \in 1..n |->
             [id |-> i, plate_number |-> f[i].plate_number, date |-> f[i].date,
              distance |-> f[i].distance, created_at |-> f[i].created_at]] :
            f \in {g \in [1..n -> RowValues] :
                     \A i \in 1..n, j \in 1..n : i < j => RowCode(g[i]) <= RowCode(g[j])}} :
         n \in 0..MaxRows}

PlateFilters == {Absent, Some({}), Some({"A1"}), Some({"A1", "B2"})}
DateBounds   == {Absent} \cup {Some(d) : d \in Dates}
Limits       == {0 - 1, 0, 1, DefaultLimit}

Criteria ==
  [plate_number : PlateFilters, start_at : DateBounds, end_at : DateBounds,
   limit : Limits]

Rows == {table[i] : i \in 1..Len(table)}

-----------------------------------------------------------------------------
(* Time normalization *)

\* the datetime the driver hands out for a stored instant: wall clock h in
\* the session's zone tz (naive: the UTC wall clock, no zone)
Present(stored) ==
  IF stored = Absent THEN Absent
  ELSE Some([h |-> stored[1] + (IF dbTimeZone = Absent THEN 0 ELSE dbTimeZone[1]),
             tz |-> dbTimeZone])

\* datetime.replace(tzinfo=timezone.utc)
ReplaceUtc(dt) == [h |-> dt.h, tz |-> Some(0)]

\* aware datetime.astimezone(timezone(timedelta(hours=7)))
AsBangkok(dt) == [h |-> dt.h - dt.tz[1] + BangkokOffset, tz |-> Some(BangkokOffset)]

\* the instant a datetime denotes (hours, UTC); a naive one is taken as UTC
Instant(dt) == IF dt.tz = Absent THEN dt.h ELSE dt.h - dt.tz[1]

\* schemas/drivingdistance.py: DrivingDistanceBase.convert_to_bangkok, run on
\* every record of a response_model=List[DrivingDistanceOut] response
convert_to_bangkok(value) ==
  IF value = Absent THEN value
  ELSE Some(AsBangkok(IF value[1].tz = Absent THEN ReplaceUtc(value[1]) ELSE value[1]))

\* routes, lines 127-129 (and 177-179): the handler's own conversion
\*   if record.created_at:
\*       record.created_at = record.created_at.replace(tzinfo=utc).astimezone(BKK_TZ)
HandlerCreatedAt(value) ==
  IF value # Absent THEN Some(AsBangkok(ReplaceUtc(value[1]))) ELSE value

\* the record of the response made from row `row` by the list handlers
ListRecord(row) ==
  [id |-> row.id, plate_number |-> row.plate_number, date |-> row.date,
   distance |-> row.distance,
   created_at |-> convert_to_bangkok(HandlerCreatedAt(Present(row.created_at)))]

\* the created_at the response of POST /bulk carries for the same row
BulkCreatedAt(row) == convert_to_bangkok(Present(row.created_at))

-----------------------------------------------------------------------------
(* The read side: queries *)

\* the sequences that list the rows of S once each
Orderings(S) ==
  {f \in [1..Cardinality(S) -> S] : \A x \in S : \E i \in 1..Cardinality(S) : f[i] = x}

\* ORDER BY date ASC: rows of equal date come in any order
OrderByDate(S) ==
  {f \in Orderings(S) : \A i \in 1..Len(f), j \in 1..Len(f) : i < j => f[i].date <= f[j].date}

\* LIMIT n, n >= 0
Limit(f, n) == SubSeq(f, 1, Min(n, Len(f)))

\* the filters with the start bound exclusive
filter_predicate_strict(row, c) ==
  /\ (c.plate_number # Absent /\ c.plate_number[1] # {}
        => row.plate_number \in c.plate_number[1])
  /\ IF c.start_at # Absent /\ c.end_at # Absent
       THEN row.date > c.start_at[1] /\ row.date <= c.end_at[1]
     ELSE IF c.start_at # Absent THEN row.date > c.start_at[1]
     ELSE IF c.end_at # Absent THEN row.date <= c.end_at[1]
     ELSE TRUE

\* lines 107-119: the filters of POST /filter
filter_predicate(row, c) ==
  /\ (c.plate_number # Absent /\ c.plate_number[1] # {}
        => row.plate_number \in c.plate_number[1])
  /\ IF c.start_at # Absent /\ c.end_at # Absent
       THEN row.date >= c.start_at[1] /\ row.date <= c.end_at[1]
     ELSE IF c.start_at # Absent THEN row.date >= c.start_at[1]
     ELSE IF c.end_at # Absent THEN row.date <= c.end_at[1]
     ELSE TRUE

\* lines 158-169: the filters of GET /
get_predicate(row, c) ==
  /\ (c.plate_number # Absent /\ c.plate_number[1] # {}
        => row.plate_number \in c.plate_number[1])
  /\ IF c.start_at # Absent /\ c.end_at # Absent
       THEN row.date >= c.start_at[1] /\ row.date <= c.end_at[1]
     ELSE IF c.start_at # Absent THEN row.date >= c.start_at[1]
     ELSE IF c.end_at # Absent THEN row.date <= c.end_at[1]
     ELSE TRUE

\* the filters without the branch for an end bound alone
sum_predicate_no_end(row, c) ==
  /\ (c.plate_number # Absent /\ c.plate_number[1] # {}
        => row.plate_number \in c.plate_number[1])
  /\ IF c.start_at # Absent /\ c.end_at # Absent
       THEN row.date >= c.start_at[1] /\ row.date <= c.end_at[1]
     ELSE IF c.start_at # Absent THEN row.date >= c.start_at[1]
     ELSE TRUE

\* lines 209-221: the filters of POST /sumdistance
sum_predicate(row, c) ==
  /\ (c.plate_number # Absent /\ c.plate_number[1] # {}
        => row.plate_number \in c.plate_number[1])
  /\ IF c.start_at # Absent /\ c.end_at # Absent
       THEN row.date >= c.start_at[1] /\ row.date <= c.end_at[1]
     ELSE IF c.start_at # Absent THEN row.date >= c.start_at[1]
     ELSE IF c.end_at # Absent THEN row.date <= c.end_at[1]
     ELSE TRUE

\* func.sum(DrivingDistance.distance) over a group of rows
RECURSIVE SumDistance(_)
SumDistance(S) ==
  IF S = {} THEN 0
  ELSE LET x == CHOOSE y \in S : TRUE IN x.distance + SumDistance(S \ {x})

\* the plate numbers of S in ascending order
RECURSIVE SortedPlates(_)
SortedPlates(P) ==
  IF P = {} THEN <<>>
  ELSE LET p == CHOOSE x \in P : \A y \in P : PlateRank(x) <= PlateRank(y)
       IN <<p>> \o SortedPlates(P \ {p})

\* lines 224-242: GROUP BY plate_number ORDER BY plate_number ASC, and the
\* summary made of the result
Summary(S, c) ==
  LET plates == SortedPlates({x.plate_number : x \in S})
  IN [i \in 1..Len(plates) |->
        [plate_number |-> plates[i],
         total_distance |-> SumDistance({x \in S : x.plate_number = plates[i]}),
         start_at |-> c.start_at, end_at |-> c.end_at]]

\* line 271: unique_plates = [p[0] for p in plates if p[0]]
Truthy(p) == p # ""

-----------------------------------------------------------------------------
(* The read side: requests *)

QueryRoutes == {"filter", "get", "sum", "plates"}

InitQuery ==
  /\ InitRequests
  /\ store = {}
  /\ nextId = 1
  /\ table \in Tables
  /\ dbTimeZone \in TimeZones

ReceiveQuery(r) ==
  /\ pc[r] = "idle"
  /\ \E tok \in Tokens, rt \in QueryRoutes :
       /\ x_token' = [x_token EXCEPT ![r] = tok]
       /\ route' = [route EXCEPT ![r] = rt]
  /\ pc' = [pc EXCEPT ![r] = "auth"]
  /\ UNCHANGED <<API_TOKEN, status, detail, response, sessionClosed, conn, touched,
                 bulkVars, queryVars>>

\* what a handler leaves behind: one SELECT has run in a transaction that
\* nothing ends
AfterSelect(r) ==
  /\ conn' = [conn EXCEPT ![r] = TRUE]
  /\ touched' = [touched EXCEPT ![r] = TRUE]
  /\ pc' = [pc EXCEPT ![r] = "done"]
  /\ UNCHANGED <<API_TOKEN, route, x_token, sessionClosed, bulkVars, table, dbTimeZone>>

\* the outcome of a list handler whose query gave `records`
ListOutcome(r, records) ==
  IF records = <<>>
    THEN /\ status' = [status EXCEPT ![r] = 404]
         /\ detail' = [detail EXCEPT ![r] = "No matching records found"]
         /\ response' = [response EXCEPT ![r] = <<>>]
    ELSE /\ status' = [status EXCEPT ![r] = 200]
         /\ response' = [response EXCEPT ![r] =
                           [i \in 1..Len(records) |-> ListRecord(records[i])]]
         /\ UNCHANGED detail

\* a negative LIMIT is refused by the store; the handler does not catch it
LimitRefused(r) ==
  /\ status' = [status EXCEPT ![r] = 500]
  /\ detail' = [detail EXCEPT ![r] = "LIMIT must not be negative"]
  /\ response' = [response EXCEPT ![r] = <<>>]

\* POST /filter: filter_driving_distance
FilterList(r) ==
  /\ pc[r] = "handler" /\ route[r] = "filter"
  /\ \E c \in Criteria :
       /\ criteria' = [criteria EXCEPT ![r] = c]
       /\ IF c.limit < 0 THEN LimitRefused(r)
          ELSE \E f \in OrderByDate({x \in Rows : filter_predicate(x, c)}) :
                 ListOutcome(r, Limit(f, c.limit))
  /\ AfterSelect(r)

\* GET /: get_driving_distance_records
GetList(r) ==
  /\ pc[r] = "handler" /\ route[r] = "get"
  /\ \E c \in Criteria :
       /\ criteria' = [criteria EXCEPT ![r] = c]
       /\ IF c.limit < 0 THEN LimitRefused(r)
          ELSE \E f \in OrderByDate({x \in Rows : get_predicate(x, c)}) :
                 ListOutcome(r, Limit(f, c.limit))
  /\ AfterSelect(r)

\* POST /sumdistance: summarize_distance.  payload.limit is not read.
SumByPlate(r) ==
  /\ pc[r] = "handler" /\ route[r] = "sum"
  /\ \E c \in Criteria :
       /\ criteria' = [criteria EXCEPT ![r] = c]
       /\ LET results == Summary({x \in Rows : sum_predicate(x, c)}, c)
          IN IF results = <<>>
               THEN /\ status' = [status EXCEPT ![r] = 404]
                    /\ detail' = [detail EXCEPT ![r] = "No records found for summary"]
                    /\ response' = [response EXCEPT ![r] = <<>>]
               ELSE /\ status' = [status EXCEPT ![r] = 200]
                    /\ response' = [response EXCEPT ![r] = results]
                    /\ UNCHANGED detail
  /\ AfterSelect(r)

\* GET /platenumber: get_unique_plate_numbers.  The HTTPException(404) is
\* raised inside the try block, whose `except Exception` turns it into a 500.
UniquePlates(r) ==
  /\ pc[r] = "handler" /\ route[r] = "plates"
  /\ LET plates == SortedPlates({x.plate_number : x \in Rows})
         unique_plates == SelectSeq(plates, Truthy)
     IN IF unique_plates = <<>>
          THEN /\ status' = [status EXCEPT ![r] = 500]
               /\ detail' = [detail EXCEPT ![r] =
                     "Error retrieving plate numbers: 404: No plate numbers found"]
               /\ response' = [response EXCEPT ![r] = <<>>]
          ELSE /\ status' = [status EXCEPT ![r] = 200]
               /\ response' = [response EXCEPT ![r] =
                     <<[count |-> Len(unique_plates), plates |-> unique_plates]>>]
               /\ UNCHANGED detail
  /\ UNCHANGED criteria
  /\ AfterSelect(r)

NextQuery ==
  \E r \in QReqs :
    \/ ReceiveQuery(r)
    \/ Auth(r)
    \/ Depends(r)
    \/ FilterList(r)
    \/ GetList(r)
    \/ SumByPlate(r)
    \/ UniquePlates(r)

-----------------------------------------------------------------------------
(* Properties of the read side *)

Answered(r, rts) == pc[r] = "done" /\ route[r] \in rts /\ touched[r]

\* the filter as the specification words it
Satisfies(x, c) ==
  /\ (c.plate_number # Absent /\ c.plate_number[1] # {}
        => x.plate_number \in c.plate_number[1])
  /\ (c.start_at # Absent => c.start_at[1] <= x.date)
  /\ (c.end_at # Absent => x.date <= c.end_at[1])

RowOf(rec) == CHOOSE x \in Rows : x.id = rec.id

\* C5: the list operation (POST /filter and GET /) returns only records
\* whose plate is in the plate set when that set is non-empty and whose date
\* is within each bound that is present; the result is sorted ascending by
\* date, has at most limit records, and is the first limit matching records
\* in date order.
C5_ListFiltered ==
  \A r \in QReqs :
    Answered(r, {"filter", "get"}) /\ status[r] \in {200, 404} =>
      LET c == criteria[r]
          resp == response[r]
          M == {x \in Rows : Satisfies(x, c)}
          ids == {resp[i].id : i \in 1..Len(resp)}
      IN /\ Len(resp) = Min(c.limit, Cardinality(M))
         /\ Len(resp) <= c.limit
         /\ (status[r] = 200) = (Len(resp) > 0)
         /\ Cardinality(ids) = Len(resp)
         /\ \A i \in 1..Len(resp) :
              /\ \E x \in M : /\ x.id = resp[i].id
                              /\ x.plate_number = resp[i].plate_number
                              /\ x.date = resp[i].date
                              /\ x.distance = resp[i].distance
              /\ \A j \in 1..Len(resp) : i < j => resp[i].date <= resp[j].date
              /\ \A x \in M : x.id \notin ids => resp[i].date <= x.date

\* a list request with a plate set and both bounds, cut by its limit
C5_Witness ==
  \E r \in QReqs :
    /\ Answered(r, {"get"}) /\ status[r] = 200
    /\ criteria[r].limit = 1 /\ Len(response[r]) = 1
    /\ criteria[r].plate_number = Some({"A1"})
    /\ criteria[r].start_at # Absent /\ criteria[r].end_at # Absent
    /\ Cardinality({x \in Rows : Satisfies(x, criteria[r])}) = 2
    /\ \E x \in Rows : ~Satisfies(x, criteria[r]) \/ x.date > response[r][1].date

\* the records the list operation can return for criteria c
ListResults(c) ==
  {Limit(f, c.limit) : f \in OrderByDate({x \in Rows : filter_predicate(x, c)})}

SeqRange(f) == {f[i] : i \in 1..Len(f)}

\* C6 as stated: the summary is the sum of distance, by plate, over exactly
\* the records the list operation returns for the same plate set, dates and
\* limit.
C6_SumOverListResult ==
  \A r \in QReqs :
    Answered(r, {"sum"}) /\ criteria[r].limit >= 0 =>
      \A recs \in ListResults(criteria[r]) :
        response[r] = Summary(SeqRange(recs), criteria[r])

\* C6 as amended: the summary is the sum of distance, by plate, over every
\* record that matches the plate set and the date bounds of the criteria
\* (what the list operation returns when its limit does not cut the result);
\* the limit is not applied.  One group per plate, ascending by plate.
C6_SumOverMatches ==
  \A r \in QReqs :
    Answered(r, {"sum"}) =>
      LET c == criteria[r]
          resp == response[r]
          M == {x \in Rows : filter_predicate(x, c)}
      IN /\ (status[r] = 200) = (M # {})
         /\ (status[r] = 404) = (M = {})
         /\ {resp[i].plate_number : i \in 1..Len(resp)} = {x.plate_number : x \in M}
         /\ \A i \in 1..Len(resp) :
              /\ resp[i].total_distance =
                   SumDistance({x \in M : x.plate_number = resp[i].plate_number})
              /\ resp[i].start_at = c.start_at /\ resp[i].end_at = c.end_at
              /\ \A j \in 1..Len(resp) :
                   i < j => PlateRank(resp[i].plate_number) < PlateRank(resp[j].plate_number)

\* a summary over two matching records of two plates, asked with limit 1
C6_Witness ==
  \E r \in QReqs :
    /\ Answered(r, {"sum"}) /\ status[r] = 200
    /\ criteria[r].limit = 1 /\ criteria[r].end_at # Absent
    /\ Len(response[r]) = 2
    /\ Cardinality({x \in Rows : filter_predicate(x, criteria[r])}) = 2

\* C7: distinct plates on a store with no non-null plate_number ends 404;
\* on any other store it returns each distinct non-null plate_number once,
\* ascending, with count the number of plates returned.
C7_DistinctPlates ==
  \A r \in QReqs :
    Answered(r, {"plates"}) =>
      LET P == {x.plate_number : x \in Rows}
      IN IF P = {} THEN status[r] = 404
         ELSE /\ status[r] = 200
              /\ response[r][1].plates = SortedPlates(P)
              /\ response[r][1].count = Cardinality(P)

\* C8: a request whose token is missing or differs from the secret gets 401,
\* a request to a server without a secret gets 500, neither reads or writes
\* the store; only a request with the secret reaches the operation.
C8_GuardedRoutes ==
  \A r \in Reqs :
    pc[r] \notin {"idle", "auth"} =>
      LET configured == API_TOKEN \notin {None, ""}
      IN /\ (~configured => status[r] = 500 /\ ~touched[r])
         /\ (configured /\ x_token[r] # API_TOKEN => status[r] = 401 /\ ~touched[r])
         /\ (pc[r] \in HandlerPcs \/ touched[r] => configured /\ x_token[r] = API_TOKEN)

\* C9: the session handed to an operation is open while the operation runs
\* and is closed only after it; a completed request holds no connection.
C9_SessionLifetime ==
  \A r \in Reqs :
    /\ (pc[r] \in HandlerPcs => ~sessionClosed[r])
    /\ (pc[r] = "done" => ~conn[r])

\* C10: the created_at of a listed record is the stored timestamp with UTC
\* attached only when it carries no zone, expressed at UTC+7 with its instant
\* kept; null stays null; it equals what the bulk response carries.
C10_ListCreatedAt ==
  \A r \in QReqs :
    Answered(r, {"filter", "get"}) /\ status[r] = 200 =>
      \A i \in 1..Len(response[r]) :
        LET row == RowOf(response[r][i])
            stored == Present(row.created_at)
            out == response[r][i].created_at
        IN /\ (stored = Absent => out = Absent)
           /\ (stored # Absent =>
                 /\ out # Absent
                 /\ out[1].tz = Some(BangkokOffset)
                 /\ Instant(out[1]) = Instant(stored[1]))
           /\ out = BulkCreatedAt(row)

SpecQuery == InitQuery /\ [][NextQuery]_vars

=============================================================================
